---- MODULE Spec2Model ----
(***************************************************************************)
(* The transfer subsystem of FlareDrive (src/src/app/transfer.ts): the     *)
(* process-wide uploadQueue, processUploadQueue (one drain pass per call), *)
(* thumbnail generation and upload, and multipartUpload with its pLimit(2) *)
(* gate.  JavaScript runs one macrotask at a time and drains all promise   *)
(* continuations (microtasks) before the next one, so every action below   *)
(* is one event (a call, a timer, a response, a load/error/progress event) *)
(* together with all the code that runs up to the next await on an event.  *)
(***************************************************************************)
EXTENDS Integers, Sequences, FiniteSets, TLC

\* ------------------------------------------------------------------ bounds
MaxTasks == 2          \* tasks ever pushed on uploadQueue
MaxParts == 3          \* largest number of parts of a file
MaxCalls == 3          \* calls of copyPaste and createFolder together

\* --------------------------------------------------------------- constants
SIZE_LIMIT == 100000000
Concurrency == 2
NoEtag == 0            \* res.headers.get("etag") returning null

HalfLimit == SIZE_LIMIT \div 2
NoDigest == "null"
NoFile == [type |-> "none", size |-> 0]

TaskIds == 1..MaxTasks
Digests == {"d1", "d2"}
Types == {"image/png", "video/mp4", "application/pdf", "text/plain"}
\* sizes below, at and above the threshold; the largest has a short last part
QueueSizes == {HalfLimit \div 10, SIZE_LIMIT, MaxParts * SIZE_LIMIT - HalfLimit}
\* every multiple of half a part up to MaxParts parts, and one byte less and
\* one byte more than one part
FileSizes ==
    {k * HalfLimit : k \in 0..(2 * MaxParts)} \cup {SIZE_LIMIT - 1, SIZE_LIMIT + 1}

VARIABLES
    nextId,           \* number of tasks pushed so far
    files,            \* files[t]: the File of task t
    uploadQueue,      \* the queue: task ids, head first
    pc,               \* pc[t]: where the pass that shifted t is suspended
    started,          \* task ids in the order they were shifted
    thumbnailBlob,    \* generateThumbnail's result in the pass of t
    digestHex,        \* blobDigest's result in the pass of t
    thumbnailDigest,  \* the local thumbnailDigest of the pass of t
    fdThumbnail,      \* the fd-thumbnail header of t's main upload
    result,           \* how t's main upload ended
    probes,           \* recovery probes GET /api/write/ issued in the pass of t
    timers,           \* pending setTimeout(processUploadQueue) callbacks
    mp,               \* mp[s]: the multipartUpload call of task s
    progress,         \* loaded values handed to options.onUploadProgress
    http,             \* requests issued: main PUTs per task, PUTs per thumbnail path
    thumbReq,         \* thumbReq[t]: the thumbnail PUT of the pass of t
    ops               \* the calls of copyPaste and createFolder

passVars == <<pc, thumbnailBlob, digestHex, thumbnailDigest, fdThumbnail>>
endVars == <<result, probes, timers>>
queueVars == <<nextId, files, uploadQueue, started>>
vars == <<nextId, files, uploadQueue, pc, started, thumbnailBlob, digestHex,
          thumbnailDigest, fdThumbnail, result, probes, timers, mp, progress,
          http, thumbReq, ops>>

\* ----------------------------------------------------------- pure helpers
Min(a, b) == IF a < b THEN a ELSE b

\* Math.ceil(file.size / SIZE_LIMIT)
\* the number of whole SIZE_LIMIT blocks, a shorter last block dropped
TotalChunksFloor(size) == size \div SIZE_LIMIT

TotalChunks(size) == (size + SIZE_LIMIT - 1) \div SIZE_LIMIT

\* file.slice((i - 1) * SIZE_LIMIT, i * SIZE_LIMIT): Blob.slice clamps to size
ChunkStart(i, size) == Min((i - 1) * SIZE_LIMIT, size)
ChunkEnd(i, size) == Min(i * SIZE_LIMIT, size)
ChunkLen(i, size) == ChunkEnd(i, size) - ChunkStart(i, size)

\* file.type.startsWith("image/")
IsImage(type) == type \in {"image/png"}
Eligible(type) == IsImage(type) \/ type = "video/mp4" \/ type = "application/pdf"

\* generateThumbnail's blob: a function of the file; here the image and the
\* video render to the same pixels, the document to other ones
ThumbnailOf(file) == IF file.type = "application/pdf" THEN "b2" ELSE "b1"

\* blobDigest: SHA-1 in hex, abstracted to an injective map on the blobs
BlobDigest(b) == IF b = "b1" THEN "d1" ELSE "d2"

\* the etag the store returns for part i (one name per part)
EtagOf(i) == i

\* ------------------------------------------------- multipartUpload: values
IdleCall ==
    [phase |-> "idle", caller |-> "none", size |-> 0, hasCb |-> FALSE,
     uploadId |-> 0, part |-> <<>>, etag |-> <<>>, loaded |-> <<>>,
     reqs |-> <<>>, order |-> <<>>, payload |-> <<>>, cause |-> "none",
     sent |-> <<>>, inits |-> 0, sentParts |-> 0, completes |-> 0]

\* the call up to its first await: the initiation POST is in flight
NewCall(size, cb, caller) ==
    [IdleCall EXCEPT !.phase = "init", !.caller = caller, !.size = size,
                     !.hasCb = cb, !.inits = 1]

Queued(p) == {i \in DOMAIN p : p[i] = "queued"}
Active(p) == {i \in DOMAIN p : p[i] = "inflight"}

\* a gate that starts every queued function at once
PLimitRunNoGate(p) ==
    [i \in DOMAIN p |-> IF p[i] = "queued" THEN "inflight" ELSE p[i]]

\* a gate that starts the function added last first
PLimitRunLifo(p) ==
    LET free == Concurrency - Cardinality(Active(p))
        go == {i \in Queued(p) : Cardinality({j \in Queued(p) : j > i}) < free}
    IN [i \in DOMAIN p |-> IF i \in go THEN "inflight" ELSE p[i]]

\* pLimit(2): queued functions start in the order they were added, while fewer
\* than Concurrency of them are running
PLimitRun(p) ==
    LET free == Concurrency - Cardinality(Active(p))
        go == {i \in Queued(p) : Cardinality({j \in Queued(p) : j < i}) < free}
    IN [i \in DOMAIN p |-> IF i \in go THEN "inflight" ELSE p[i]]

\* the part requests sent when the part states go from p to q
Sent(reqs, p, q) ==
    [i \in DOMAIN reqs |->
        reqs[i] + (IF p[i] = "queued" /\ q[i] = "inflight" THEN 1 ELSE 0)]

\* the uploadId in the JSON of the initiation response of call s; 0 stands
\* for the undefined uploadId before it
UploadIdOf(s) == s

NoRequest == [partNumber |-> 0, uploadId |-> 0, start |-> 0, end |-> 0]

\* a part request that carries no uploadId
PartRequestNoId(id, size, i) ==
    [partNumber |-> i, uploadId |-> 0,
     start |-> ChunkStart(i, size), end |-> ChunkEnd(i, size)]

\* lines 129-137: the PUT of part i, its query parameters and its body, the
\* bytes [start, end) of the file
PartRequest(id, size, i) ==
    [partNumber |-> i, uploadId |-> id,
     start |-> ChunkStart(i, size), end |-> ChunkEnd(i, size)]

\* the requests on the wire once the part states went from p to q
Dispatch(sent, p, q, id, size) ==
    [i \in DOMAIN sent |->
        IF p[i] = "queued" /\ q[i] = "inflight"
        THEN PartRequest(id, size, i) ELSE sent[i]]

\* how many part requests that sends
NewlySent(p, q) ==
    Cardinality({i \in DOMAIN p : p[i] = "queued" /\ q[i] = "inflight"})

\* a part whose request failed is handed to the gate again
PartRetried(p, i) == [p EXCEPT ![i] = "queued"]

\* a part whose request failed: its promise rejects, it is not queued again
PartFailed(p, i) == [p EXCEPT ![i] = "failed"]

\* the results in the order the requests completed, numbered by position
UploadedPartsByCompletion(etag, order) ==
    [k \in DOMAIN etag |-> [partNumber |-> k, etag |-> etag[order[k]]]]

\* Promise.all(promises): the results in the order of the promises, each the
\* { partNumber: i, etag } its own function returned
UploadedParts(etag, order) ==
    [k \in DOMAIN etag |-> [partNumber |-> k, etag |-> etag[k]]]

\* a call that has settled and whose part requests have all settled holds
\* nothing any more: its locals are unreachable
Collect(c) ==
    IF c.phase \in {"resolved", "rejected"} /\ Active(c.part) = {} /\ Queued(c.part) = {}
    THEN [c EXCEPT !.part = <<>>, !.etag = <<>>, !.loaded = <<>>, !.reqs = <<>>,
                   !.order = <<>>, !.payload = <<>>, !.sent = <<>>]
    ELSE c

\* loaded: (i - 1) * SIZE_LIMIT + progressEvent.loaded
Aggregate(i, loaded) == (i - 1) * SIZE_LIMIT + loaded

\* the loaded values of the progress events of a body of c bytes
ProgressPoints(c) == {c \div 2, c}

\* ------------------------------------------- processUploadQueue: fragments
\* a pass that schedules the next one only after a successful upload
EndPassInTry(t, outcome) ==
    /\ pc' = [pc EXCEPT ![t] = "done"]
    /\ result' = [result EXCEPT ![t] = outcome]
    /\ probes' = [probes EXCEPT ![t] = @ + (IF outcome = "failed" THEN 1 ELSE 0)]
    /\ timers' = timers + (IF outcome = "ok" THEN 1 ELSE 0)

\* the rest of a pass once its main upload settled: the catch block issues
\* the recovery probe; setTimeout(processUploadQueue) runs either way
EndPass(t, outcome) ==
    /\ pc' = [pc EXCEPT ![t] = "done"]
    /\ result' = [result EXCEPT ![t] = outcome]
    /\ probes' = [probes EXCEPT ![t] = @ + (IF outcome = "failed" THEN 1 ELSE 0)]
    /\ timers' = timers + 1

\* the awaiting caller of multipartUpload call s resumes
CallerResumes(s, outcome) ==
    IF mp[s].caller = "queue"
    THEN EndPass(s, outcome)
    ELSE UNCHANGED <<pc, result, probes, timers>>

\* the main upload with a file of exactly SIZE_LIMIT bytes sent as one PUT
StartMainAbove(t, d) ==
    /\ fdThumbnail' = [fdThumbnail EXCEPT ![t] = d]
    /\ IF files[t].size > SIZE_LIMIT
       THEN /\ pc' = [pc EXCEPT ![t] = "mp"]
            /\ mp' = [mp EXCEPT ![t] = NewCall(files[t].size, FALSE, "queue")]
            /\ UNCHANGED http
       ELSE /\ pc' = [pc EXCEPT ![t] = "put"]
            /\ http' = [http EXCEPT !.put[t] = @ + 1]
            /\ UNCHANGED mp

\* lines 230-240: the main upload is issued with the digest d as fd-thumbnail
StartMain(t, d) ==
    /\ fdThumbnail' = [fdThumbnail EXCEPT ![t] = d]
    /\ IF files[t].size >= SIZE_LIMIT
       THEN /\ pc' = [pc EXCEPT ![t] = "mp"]
            /\ mp' = [mp EXCEPT ![t] = NewCall(files[t].size, FALSE, "queue")]
            /\ UNCHANGED http
       ELSE /\ pc' = [pc EXCEPT ![t] = "put"]
            /\ http' = [http EXCEPT !.put[t] = @ + 1]
            /\ UNCHANGED mp

\* one call of processUploadQueue up to its first await
Pass ==
    IF uploadQueue = <<>>
    THEN UNCHANGED <<uploadQueue, started, pc, fdThumbnail, mp, http>>
    ELSE LET t == Head(uploadQueue) IN
         /\ uploadQueue' = Tail(uploadQueue)
         /\ started' = Append(started, t)
         /\ IF Eligible(files[t].type)
            THEN /\ pc' = [pc EXCEPT ![t] = "render"]
                 /\ UNCHANGED <<fdThumbnail, mp, http>>
            ELSE StartMain(t, NoDigest)

\* ---------------------------------------------------------------- actions
\* a producer pushes a task
Enqueue(type, size) ==
    /\ nextId < MaxTasks
    /\ nextId' = nextId + 1
    /\ files' = [files EXCEPT ![nextId + 1] = [type |-> type, size |-> size]]
    /\ uploadQueue' = Append(uploadQueue, nextId + 1)
    /\ pc' = [pc EXCEPT ![nextId + 1] = "queued"]
    /\ UNCHANGED <<started, thumbnailBlob, digestHex, thumbnailDigest,
                   fdThumbnail, result, probes, timers, mp, progress,
                   http, thumbReq, ops>>

\* a caller invokes processUploadQueue()
ExternalDrain ==
    /\ Pass
    /\ UNCHANGED <<nextId, files, thumbnailBlob, digestHex, thumbnailDigest,
                   result, probes, timers, progress,
                   thumbReq, ops>>

\* a callback of setTimeout(processUploadQueue) runs
TimerDrain ==
    /\ timers > 0
    /\ timers' = timers - 1
    /\ Pass
    /\ UNCHANGED <<nextId, files, thumbnailBlob, digestHex, thumbnailDigest,
                   result, probes, progress,
                   thumbReq, ops>>

\* generateThumbnail and blobDigest resolve
RenderDone(t) ==
    /\ pc[t] = "render"
    /\ thumbnailBlob' = [thumbnailBlob EXCEPT ![t] = ThumbnailOf(files[t])]
    /\ digestHex' = [digestHex EXCEPT ![t] = BlobDigest(ThumbnailOf(files[t]))]
    /\ pc' = [pc EXCEPT ![t] = "thumbPut"]
    /\ http' = [http EXCEPT !.thumb[BlobDigest(ThumbnailOf(files[t]))] = @ + 1]
    /\ thumbReq' = [thumbReq EXCEPT ![t] = "sent"]
    /\ UNCHANGED <<queueVars, thumbnailDigest, fdThumbnail, endVars, mp, progress,
                   ops>>

\* generateThumbnail or blobDigest rejects: the outer catch logs
RenderFail(t) ==
    /\ pc[t] = "render"
    /\ StartMain(t, NoDigest)
    /\ UNCHANGED <<queueVars, thumbnailBlob, digestHex, thumbnailDigest,
                   endVars, progress,
                   thumbReq, ops>>

\* the image fails to load: only onload is set, so the promise of lines
\* 12-16 never settles
ImageError(t) ==
    /\ pc[t] = "render"
    /\ IsImage(files[t].type)
    /\ pc' = [pc EXCEPT ![t] = "stalled"]
    /\ UNCHANGED <<queueVars, thumbnailBlob, digestHex, thumbnailDigest,
                   fdThumbnail, endVars, mp, progress,
                   http, thumbReq, ops>>

\* the thumbnail PUT resolves
ThumbPutLoad(t) ==
    /\ pc[t] = "thumbPut"
    /\ thumbnailDigest' = [thumbnailDigest EXCEPT ![t] = digestHex[t]]
    /\ thumbReq' = [thumbReq EXCEPT ![t] = "ok"]
    /\ StartMain(t, digestHex[t])
    /\ UNCHANGED <<queueVars, thumbnailBlob, digestHex, endVars, progress,
                   ops>>

\* a pass that had set thumbnailDigest before awaiting the thumbnail PUT
ThumbPutErrorKeepsDigest(t) ==
    /\ pc[t] = "thumbPut"
    /\ probes' = [probes EXCEPT ![t] = @ + 1]
    /\ thumbReq' = [thumbReq EXCEPT ![t] = "failed"]
    /\ thumbnailDigest' = [thumbnailDigest EXCEPT ![t] = digestHex[t]]
    /\ StartMain(t, digestHex[t])
    /\ UNCHANGED <<queueVars, thumbnailBlob, digestHex,
                   result, timers, progress,
                   ops>>

\* the thumbnail PUT rejects: the inner catch issues the recovery probe
ThumbPutError(t) ==
    /\ pc[t] = "thumbPut"
    /\ probes' = [probes EXCEPT ![t] = @ + 1]
    /\ thumbReq' = [thumbReq EXCEPT ![t] = "failed"]
    /\ StartMain(t, NoDigest)
    /\ UNCHANGED <<queueVars, thumbnailBlob, digestHex, thumbnailDigest,
                   result, timers, progress,
                   ops>>

\* the single PUT of xhrFetch: onload resolves (whatever the status)
PutLoad(t) ==
    /\ pc[t] = "put"
    /\ EndPass(t, "ok")
    /\ UNCHANGED <<queueVars, thumbnailBlob, digestHex, thumbnailDigest,
                   fdThumbnail, mp, progress,
                   http, thumbReq, ops>>

\* the single PUT of xhrFetch: onerror rejects
PutError(t) ==
    /\ pc[t] = "put"
    /\ EndPass(t, "failed")
    /\ UNCHANGED <<queueVars, thumbnailBlob, digestHex, thumbnailDigest,
                   fdThumbnail, mp, progress,
                   http, thumbReq, ops>>

\* the initiation POST settles.  "error": fetch rejects; "badjson":
\* uploadResponse.json() rejects; "ok": uploadId is read, the parts are handed
\* to pLimit, and Promise.all of no parts resolves at once
InitiateResponse(s, outcome) ==
    /\ mp[s].phase = "init"
    /\ IF outcome = "ok"
       THEN LET n == TotalChunks(mp[s].size)
                p0 == [i \in 1..n |-> "queued"]
                p1 == PLimitRun(p0)
                zero == [i \in 1..n |-> 0]
            IN /\ mp' = [mp EXCEPT
                    ![s].uploadId = UploadIdOf(s),
                    ![s].part = p1,
                    ![s].sent = Dispatch([i \in 1..n |-> NoRequest], p0, p1,
                                         UploadIdOf(s), mp[s].size),
                    ![s].sentParts = NewlySent(p0, p1),
                    ![s].completes = IF n = 0 THEN 1 ELSE 0,
                    ![s].etag = zero,
                    ![s].loaded = zero,
                    ![s].reqs = Sent(zero, p0, p1),
                    ![s].phase = IF n = 0 THEN "complete" ELSE "parts",
                    ![s].payload = <<>>]
               /\ UNCHANGED <<pc, result, probes, timers>>
       ELSE /\ mp' = [mp EXCEPT ![s].phase = "rejected", ![s].cause = "init"]
            /\ CallerResumes(s, "failed")
    /\ UNCHANGED <<queueVars, thumbnailBlob, digestHex, thumbnailDigest,
                   fdThumbnail, progress,
                   http, thumbReq, ops>>

\* xhr.upload.onprogress of part i with progressEvent.loaded = b; without an
\* onUploadProgress option the handler returns at once
PartProgress(s, i, b) ==
    /\ i \in DOMAIN mp[s].part
    /\ mp[s].part[i] = "inflight"
    /\ mp[s].hasCb
    /\ b \in ProgressPoints(ChunkLen(i, mp[s].size))
    /\ b > mp[s].loaded[i]
    /\ mp' = [mp EXCEPT ![s].loaded[i] = b]
    /\ progress' = Append(progress, Aggregate(i, b))
    /\ UNCHANGED <<queueVars, passVars, endVars,
                   http, thumbReq, ops>>

\* xhr.onload of part i: the response resolves whatever its status, with or
\* without an etag header; pLimit starts the next part; Promise.all resolves
\* with the last part and the completion POST is sent
PartLoad(s, i, withEtag) ==
    /\ i \in DOMAIN mp[s].part
    /\ mp[s].part[i] = "inflight"
    /\ LET p1 == [mp[s].part EXCEPT ![i] = "done"]
           p2 == PLimitRun(p1)
           etag == [mp[s].etag EXCEPT ![i] = IF withEtag THEN EtagOf(i) ELSE NoEtag]
           order == Append(mp[s].order, i)
           all == mp[s].phase = "parts" /\ \A j \in DOMAIN p1 : p1[j] = "done"
       IN mp' = [mp EXCEPT ![s] = Collect([@ EXCEPT
              !.part = p2,
              !.etag = etag,
              !.order = order,
              !.reqs = Sent(mp[s].reqs, p1, p2),
              !.sent = Dispatch(@, p1, p2, mp[s].uploadId, mp[s].size),
              !.sentParts = @ + NewlySent(p1, p2),
              !.completes = IF all THEN @ + 1 ELSE @,
              !.phase = IF all THEN "complete" ELSE @,
              !.payload = IF all THEN UploadedParts(etag, order) ELSE @])]
    /\ UNCHANGED <<queueVars, passVars, endVars, progress,
                   http, thumbReq, ops>>

\* xhr.onerror of part i: its promise rejects; pLimit starts the next part all
\* the same; the first rejection rejects Promise.all and so the call
PartError(s, i) ==
    /\ i \in DOMAIN mp[s].part
    /\ mp[s].part[i] = "inflight"
    /\ LET p1 == PartFailed(mp[s].part, i)
           p2 == PLimitRun(p1)
       IN mp' = [mp EXCEPT ![s] = Collect([@ EXCEPT
              !.part = p2,
              !.order = Append(@, i),
              !.reqs = Sent(mp[s].reqs, p1, p2),
              !.sent = Dispatch(@, p1, p2, mp[s].uploadId, mp[s].size),
              !.sentParts = @ + NewlySent(p1, p2),
              !.phase = IF @ = "parts" THEN "rejected" ELSE @,
              !.cause = IF mp[s].phase = "parts" THEN "part" ELSE @])]
    /\ IF mp[s].phase = "parts"
       THEN CallerResumes(s, "failed")
       ELSE UNCHANGED <<pc, result, probes, timers>>
    /\ UNCHANGED <<queueVars, thumbnailBlob, digestHex, thumbnailDigest,
                   fdThumbnail, progress,
                   http, thumbReq, ops>>

\* the completion POST settles: fetch resolves (whatever the status) or rejects
CompleteResponse(s, ok) ==
    /\ mp[s].phase = "complete"
    /\ mp' = [mp EXCEPT ![s] =
                 Collect([@ EXCEPT !.phase = IF ok THEN "resolved" ELSE "rejected",
                                   !.cause = IF ok THEN @ ELSE "complete"])]
    /\ CallerResumes(s, IF ok THEN "ok" ELSE "failed")
    /\ UNCHANGED <<queueVars, thumbnailBlob, digestHex, thumbnailDigest,
                   fdThumbnail, progress,
                   http, thumbReq, ops>>

\* ---------------------------------------------------------- specifications
\* ------------------------------------------------ copyPaste, createFolder
\* the names window.prompt can return, as sequences of characters; <<>> is
\* the empty name and the null of a dismissed prompt (both falsy, line 168)
FolderNames == {<<>>, <<"a", "/", "b">>, <<"d", "o", "c", "s">>}

Includes(name, ch) == \E k \in DOMAIN name : name[k] = ch

\* one call slot per operation: state of the latest call, and how many
\* requests, recovery probes, errors raised to the caller and alerts the
\* calls of the operation produced so far
NoOp == [state |-> "idle", puts |-> 0, probes |-> 0, raised |-> 0, alerts |-> 0]
NoOps == [copy |-> NoOp, folder |-> NoOp, calls |-> 0]

\* lines 157-163: copyPaste issues its PUT and awaits it
CopyPaste ==
    /\ ops.calls < MaxCalls
    /\ ops.copy.state # "pending"
    /\ ops' = [ops EXCEPT !.calls = @ + 1,
                          !.copy.state = "pending",
                          !.copy.puts = @ + 1]
    /\ UNCHANGED <<queueVars, passVars, endVars, mp, progress, http, thumbReq>>

\* the PUT of copyPaste resolves: the call resolves
CopyLoad ==
    /\ ops.copy.state = "pending"
    /\ ops' = [ops EXCEPT !.copy.state = "resolved"]
    /\ UNCHANGED <<queueVars, passVars, endVars, mp, progress, http, thumbReq>>

\* the PUT of copyPaste rejects: nothing catches it, the promise copyPaste
\* returned rejects with the error
CopyError ==
    /\ ops.copy.state = "pending"
    /\ ops' = [ops EXCEPT !.copy.state = "rejected", !.copy.raised = @ + 1]
    /\ UNCHANGED <<queueVars, passVars, endVars, mp, progress, http, thumbReq>>

\* lines 165-177: createFolder up to its await; the prompt returned name
CreateFolder(name) ==
    /\ ops.calls < MaxCalls
    /\ ops.folder.state # "pending"
    /\ ops' = IF name = <<>>
              THEN [ops EXCEPT !.calls = @ + 1, !.folder.state = "resolved"]
              ELSE IF Includes(name, "/")
              THEN [ops EXCEPT !.calls = @ + 1, !.folder.state = "resolved",
                               !.folder.alerts = @ + 1]
              ELSE [ops EXCEPT !.calls = @ + 1, !.folder.state = "pending",
                               !.folder.puts = @ + 1]
    /\ UNCHANGED <<queueVars, passVars, endVars, mp, progress, http, thumbReq>>

\* the PUT of createFolder resolves
FolderLoad ==
    /\ ops.folder.state = "pending"
    /\ ops' = [ops EXCEPT !.folder.state = "resolved"]
    /\ UNCHANGED <<queueVars, passVars, endVars, mp, progress, http, thumbReq>>

\* the PUT of createFolder rejects: the catch block (lines 178-185) issues
\* the recovery probe and the call resolves
FolderError ==
    /\ ops.folder.state = "pending"
    /\ ops' = [ops EXCEPT !.folder.state = "resolved", !.folder.probes = @ + 1]
    /\ UNCHANGED <<queueVars, passVars, endVars, mp, progress, http, thumbReq>>

InitPass ==
    /\ pc = [t \in TaskIds |-> "new"]
    /\ thumbnailBlob = [t \in TaskIds |-> "null"]
    /\ digestHex = [t \in TaskIds |-> NoDigest]
    /\ thumbnailDigest = [t \in TaskIds |-> NoDigest]
    /\ fdThumbnail = [t \in TaskIds |-> NoDigest]
    /\ result = [t \in TaskIds |-> "none"]
    /\ probes = [t \in TaskIds |-> 0]
    /\ timers = 0
    /\ nextId = 0
    /\ files = [t \in TaskIds |-> NoFile]
    /\ uploadQueue = <<>>
    /\ started = <<>>
    /\ progress = <<>>
    /\ http = [put |-> [t \in TaskIds |-> 0], thumb |-> [d \in Digests |-> 0]]
    /\ thumbReq = [t \in TaskIds |-> "none"]
    /\ ops = NoOps

\* the module is loaded: the queue is empty and nothing runs
Init ==
    /\ InitPass
    /\ mp = [s \in TaskIds |-> IdleCall]

\* the events of the multipartUpload calls; E: whether a part response may
\* come with (TRUE) or without (FALSE) an etag header
Multipart(E) ==
    \E s \in TaskIds :
        \/ \E o \in {"ok", "error", "badjson"} : InitiateResponse(s, o)
        \/ \E i \in 1..(MaxParts + 1), e \in E : PartLoad(s, i, e)
        \/ \E i \in 1..(MaxParts + 1) : PartError(s, i)
        \/ \E ok \in BOOLEAN : CompleteResponse(s, ok)

Render ==
    \E t \in TaskIds :
        \/ RenderDone(t)
        \/ RenderFail(t)
        \/ ImageError(t)

Thumbnail == \E t \in TaskIds : ThumbPutLoad(t) \/ ThumbPutError(t)

Put == \E t \in TaskIds : PutLoad(t) \/ PutError(t)

\* the queue, its passes and their uploads; here the store answers every part
\* with an etag, and no onUploadProgress is passed (lines 235-237), so the
\* progress events change nothing
Next ==
    \/ \E type \in Types, size \in QueueSizes : Enqueue(type, size)
    \/ ExternalDrain
    \/ TimerDrain
    \/ Render
    \/ Thumbnail
    \/ Put
    \/ Multipart({TRUE})

Spec == Init /\ [][Next]_vars

\* multipartUpload called on its own, with or without onUploadProgress
InitMP ==
    /\ InitPass
    /\ \E size \in FileSizes, cb \in BOOLEAN :
          mp = [s \in TaskIds |->
                   IF s = 1 THEN NewCall(size, cb, "direct") ELSE IdleCall]

Progress ==
    \E s \in TaskIds, i \in 1..(MaxParts + 1) :
        \E b \in ProgressPoints(SIZE_LIMIT) \cup ProgressPoints(HalfLimit) :
            PartProgress(s, i, b)

NextMP == Multipart(BOOLEAN) \/ Progress

SpecMP == InitMP /\ [][NextMP]_vars

\* copyPaste and createFolder called by the page
NextOps ==
    \/ CopyPaste
    \/ CopyLoad
    \/ CopyError
    \/ \E name \in FolderNames : CreateFolder(name)
    \/ FolderLoad
    \/ FolderError

SpecOps == Init /\ [][NextOps]_vars

\* every pending render, request and timer eventually produces its event;
\* producers and outside callers of processUploadQueue need not act
RenderEvent(t) == RenderDone(t) \/ RenderFail(t) \/ ImageError(t)
ThumbEvent(t) == ThumbPutLoad(t) \/ ThumbPutError(t)
PutEvent(t) == PutLoad(t) \/ PutError(t)
MultipartEvent(s) ==
    \/ \E o \in {"ok", "error", "badjson"} : InitiateResponse(s, o)
    \/ \E i \in 1..(MaxParts + 1) : PartLoad(s, i, TRUE) \/ PartError(s, i)
    \/ \E ok \in BOOLEAN : CompleteResponse(s, ok)

Fairness ==
    /\ WF_vars(TimerDrain)
    /\ \A t \in TaskIds :
          /\ WF_vars(RenderEvent(t))
          /\ WF_vars(ThumbEvent(t))
          /\ WF_vars(PutEvent(t))
          /\ WF_vars(MultipartEvent(t))

FairSpec == Init /\ [][Next]_vars /\ Fairness

\* ------------------------------------------------------------- properties
Processing == {"render", "stalled", "thumbPut", "put", "mp"}
Thumbnailing == {"render", "stalled", "thumbPut"}
MainStarted(t) == pc[t] \in {"put", "mp", "done"}

\* C1: at most one task is between its shift and the scheduling of the next
\* pass, whenever processUploadQueue is called
C1_OneTaskAtATime ==
    Cardinality({t \in TaskIds : pc[t] \in Processing}) <= 1

\* the tasks shifted so far, then the queue, are the tasks pushed, in order
FifoOrder ==
    /\ started \o uploadQueue = [k \in 1..nextId |-> k]

\* C2: tasks start in the order they were enqueued, each is shifted at most
\* once, and every task that left the queue gets its main upload attempted
C2_FifoAndAttempted ==
    /\ []FifoOrder
    /\ \A t \in TaskIds : (pc[t] \in Processing) ~> MainStarted(t)

\* C3: a failed main upload is caught, the next pass is scheduled, and every
\* task queued behind the failed one is processed to its end
C3_FailureDoesNotHalt ==
    \A t \in TaskIds, u \in TaskIds :
        (result[t] = "failed" /\ timers > 0 /\ pc[u] = "queued") ~> (pc[u] = "done")

\* C4: a task in thumbnail rendering or in its thumbnail PUT always gets its
\* main upload started, whatever fails
C4_ThumbnailNeverBlocks ==
    \A t \in TaskIds : (pc[t] \in Thumbnailing) ~> MainStarted(t)

Parts(s) == DOMAIN mp[s].part
NumParts(s) == TotalChunks(mp[s].size)

\* C5: the completion POST is in flight only when every part 1..N is done
\* and has an etag from its own response
C5_CompletionOnlyWithAllEtags ==
    \A s \in TaskIds :
        mp[s].phase = "complete" =>
            /\ Parts(s) = 1..NumParts(s)
            /\ \A i \in Parts(s) :
                  mp[s].part[i] = "done" /\ mp[s].etag[i] # NoEtag

\* C6: the completion payload holds each partNumber 1..N exactly once, each
\* with the etag of the response to that part's own request, for every
\* order in which the parts completed
C6_PayloadPairsOwnEtag ==
    \A s \in TaskIds :
        mp[s].phase = "complete" =>
            /\ Len(mp[s].payload) = NumParts(s)
            /\ {mp[s].payload[k].partNumber : k \in DOMAIN mp[s].payload}
                  = 1..NumParts(s)
            /\ \A k \in DOMAIN mp[s].payload :
                  mp[s].payload[k].etag = mp[s].etag[mp[s].payload[k].partNumber]

\* a three-part completion whose parts did not complete in part order, each
\* response carrying its etag
C6_Witness ==
    \E s \in TaskIds :
        /\ mp[s].phase = "complete"
        /\ NumParts(s) = 3
        /\ mp[s].order = <<2, 3, 1>>
        /\ \A i \in Parts(s) : mp[s].etag[i] = EtagOf(i)

\* C7: at most 2 part requests of one call are in flight
C7_AtMostTwoInFlight ==
    \A s \in TaskIds : Cardinality(Active(mp[s].part)) <= 2

\* two parts in flight and a third held back by the gate
C7_Witness ==
    \E s \in TaskIds :
        /\ Cardinality(Active(mp[s].part)) = 2
        /\ \E i \in Parts(s) : mp[s].part[i] = "queued"

\* C8: the loaded values handed to onUploadProgress never decrease
C8_ProgressMonotone ==
    \A k \in 1..(Len(progress) - 1) : progress[k] <= progress[k + 1]

AllTransferred(c) ==
    \A i \in DOMAIN c.part :
        c.part[i] = "done" \/ c.loaded[i] = ChunkLen(i, c.size)

\* C9: loaded = file.size is reported only once every part is fully
\* transferred, and at most once
C9_SizeReportedOnlyAtEnd ==
    [][\A s \in TaskIds :
          (/\ mp[s].hasCb
           /\ Len(progress') = Len(progress) + 1
           /\ progress'[Len(progress')] = mp[s].size)
          => /\ AllTransferred(mp'[s])
             /\ \A k \in 1..Len(progress) : progress[k] # mp[s].size]_vars

\* the thumbnail PUT of t was sent and rejected
ThumbPutFailed(t) ==
    /\ digestHex[t] # NoDigest
    /\ thumbnailDigest[t] = NoDigest
    /\ pc[t] # "thumbPut"

NoPartRetried ==
    \A s \in TaskIds : \A i \in Parts(s) : mp[s].reqs[i] <= 1

\* C10 as stated: a failed part fails the transfer, no part is requested
\* twice, and the pass of that task issues exactly one recovery probe
C10_OneProbeOnPartFailure ==
    /\ NoPartRetried
    /\ \A t \in TaskIds :
          (mp[t].caller = "queue" /\ mp[t].cause = "part") =>
              /\ mp[t].phase = "rejected"
              /\ pc[t] = "done"
              /\ result[t] = "failed"
              /\ probes[t] = 1

\* C10 amended: a failed part fails the transfer, no part is requested twice,
\* and the pass issues one recovery probe for the failed main upload, on top
\* of the one it issued if its thumbnail PUT had failed
C10_OneProbeForMainUpload ==
    /\ NoPartRetried
    /\ \A t \in TaskIds :
          (mp[t].caller = "queue" /\ mp[t].cause = "part") =>
              /\ mp[t].phase = "rejected"
              /\ pc[t] = "done"
              /\ result[t] = "failed"
              /\ probes[t] = 1 + (IF ThumbPutFailed(t) THEN 1 ELSE 0)

\* a transfer failed by its second part while the first is still in flight,
\* in a pass whose thumbnail PUT had failed too
C10_Witness ==
    \E t \in TaskIds :
        /\ mp[t].cause = "part"
        /\ ThumbPutFailed(t)
        /\ probes[t] = 2
        /\ \E i \in Parts(t) : mp[t].part[i] = "inflight"

\* ------------------------------------------------------------------- C11
Dispatched(c) == {i \in DOMAIN c.sent : c.sent[i] # NoRequest}

\* C11: a multipart call whose initiation failed issued no part request and
\* no completion request; no part request is on the wire before the
\* initiation response; every part request carries its own part number and
\* the uploadId of the initiation response.
C11_InitiationGatesParts ==
    \A s \in TaskIds :
        LET c == mp[s] IN
        /\ c.phase = "init" =>
              c.sentParts = 0 /\ c.completes = 0 /\ Dispatched(c) = {}
        /\ c.cause = "init" =>
              c.phase = "rejected" /\ c.sentParts = 0 /\ c.completes = 0
        /\ \A i \in Dispatched(c) :
              c.sent[i].partNumber = i /\ c.sent[i].uploadId = UploadIdOf(s)

\* one transfer was aborted by its initiation, another has parts on the wire
C11_Witness ==
    \E s, u \in TaskIds :
        /\ mp[s].cause = "init" /\ mp[s].size >= SIZE_LIMIT
        /\ Cardinality(Dispatched(mp[u])) >= 2

\* ------------------------------------------------------------------- C12
\* C12: a transport failure of copyPaste or createFolder is absorbed by the
\* operation: no call ever rejects to its caller.
C12_NeverRaisedToCaller ==
    /\ ops.copy.state # "rejected" /\ ops.copy.raised = 0
    /\ ops.folder.state # "rejected" /\ ops.folder.raised = 0


\* ------------------------------------------------------------------- C13
\* n is the ceiling of size / SIZE_LIMIT
IsCeil(n, size) == n * SIZE_LIMIT >= size /\ (n - 1) * SIZE_LIMIT < size

\* C13: a task below SIZE_LIMIT issues exactly one PUT and no multipart
\* request; a task of SIZE_LIMIT bytes or more issues no single PUT, exactly
\* one initiation, no part request twice, and, once all its parts succeeded,
\* N = ceil(size / SIZE_LIMIT) part requests and exactly one completion; a
\* task whose main upload has not started issued none of them.
C13_PathBySizeAlone ==
    \A t \in TaskIds :
        LET c == mp[t]
            size == files[t].size
        IN  IF ~MainStarted(t)
            THEN http.put[t] = 0 /\ c.inits = 0 /\ c.sentParts = 0 /\ c.completes = 0
            ELSE IF size < SIZE_LIMIT
            THEN http.put[t] = 1 /\ c.inits = 0 /\ c.sentParts = 0 /\ c.completes = 0
            ELSE /\ http.put[t] = 0
                 /\ c.inits = 1
                 /\ \A i \in DOMAIN c.reqs : c.reqs[i] <= 1
                 /\ c.sentParts = 0 \/ (c.sentParts - 1) * SIZE_LIMIT < size
                 /\ c.completes <= 1
                 /\ (c.completes = 1 \/ result[t] = "ok") =>
                       c.completes = 1 /\ IsCeil(c.sentParts, size)

\* a small task ended after its PUT, a task of exactly SIZE_LIMIT bytes
\* ended after a successful multipart upload
C13_Witness ==
    \E t, u \in TaskIds :
        /\ files[t].size < SIZE_LIMIT /\ result[t] = "ok" /\ http.put[t] = 1
        /\ files[u].size = SIZE_LIMIT /\ result[u] = "ok" /\ mp[u].completes = 1


\* ------------------------------------------------------------------- C14
\* C14: a multipartUpload call of a file of size bytes has N parts, N the
\* ceiling of size / SIZE_LIMIT; the request of part i carries the bytes from
\* (i-1)*SIZE_LIMIT up to the smaller of i*SIZE_LIMIT and size; no part is
\* empty, two parts do not overlap, and once all are sent they cover
\* [0, size) without a gap.
C14_PartsPartitionFile ==
    \A s \in TaskIds :
        LET c == mp[s]
            n == Len(c.sent)
        IN  /\ c.phase \in {"parts", "complete"} =>
                  Len(c.part) = n /\ IsCeil(n, c.size)
            /\ c.phase \in {"complete", "resolved"} => IsCeil(c.sentParts, c.size)
            /\ \A i \in Dispatched(c) :
                  /\ c.sent[i].start = (i - 1) * SIZE_LIMIT
                  /\ c.sent[i].end =
                        IF i * SIZE_LIMIT < c.size THEN i * SIZE_LIMIT ELSE c.size
                  /\ c.sent[i].start < c.sent[i].end
            /\ \A i, j \in Dispatched(c) :
                  i < j => c.sent[i].end <= c.sent[j].start
            /\ (n > 0 /\ Dispatched(c) = 1..n) =>
                  /\ c.sent[1].start = 0
                  /\ c.sent[n].end = c.size
                  /\ \A i \in 1..(n - 1) : c.sent[i].end = c.sent[i + 1].start

\* all parts of a file whose size is no multiple of SIZE_LIMIT are sent
C14_Witness ==
    \E s \in TaskIds :
        LET c == mp[s] IN
        /\ Len(c.sent) = MaxParts
        /\ Dispatched(c) = 1..MaxParts
        /\ c.sent[MaxParts].end = c.size
        /\ c.size < MaxParts * SIZE_LIMIT


\* ------------------------------------------------------------------- C15
\* C15: the part requests of a transfer are dispatched in ascending part
\* number: whenever part j has been dispatched, so has every part i < j,
\* whichever of the earlier parts completed or failed first.
C15_AscendingDispatch ==
    \A s \in TaskIds :
        \A i, j \in DOMAIN mp[s].part :
            (i < j /\ mp[s].part[j] # "queued") => mp[s].part[i] # "queued"

\* part 2 completed before part 1, and part 3 took its place
C15_Witness ==
    \E s \in TaskIds :
        /\ Len(mp[s].part) = MaxParts
        /\ mp[s].part[1] = "inflight"
        /\ mp[s].part[2] = "done"
        /\ mp[s].part[MaxParts] = "inflight"


\* ------------------------------------------------------------------- C16
\* the tasks whose pass rendered a thumbnail with digest d
Rendered(d) == {t \in TaskIds : thumbnailBlob[t] # "null" /\ digestHex[t] = d}

\* C16: tasks with byte-identical thumbnails compute the same digest, and
\* the path thumbnails/<digest>.png is written exactly once for all of them.
C16_IdenticalThumbnailWrittenOnce ==
    /\ \A t, u \in TaskIds :
          (thumbnailBlob[t] # "null" /\ thumbnailBlob[t] = thumbnailBlob[u]) =>
              digestHex[t] = digestHex[u]
    /\ \A d \in Digests : Rendered(d) # {} => http.thumb[d] = 1


\* ------------------------------------------------------------------- C17
DrainStep == ExternalDrain \/ TimerDrain

\* C17: a pass on an empty queue issues no request, changes neither the
\* queue nor any task and schedules nothing; a pass on a non-empty queue
\* shifts exactly the head and schedules nothing by itself; no step shifts
\* two tasks; a timer is scheduled exactly in the step in which the main
\* upload of a task settles, resolved or rejected, and then exactly one.
C17_DrainPassFrame ==
    [][/\ (DrainStep /\ uploadQueue = <<>>) =>
             /\ UNCHANGED <<queueVars, passVars, result, probes, mp, progress,
                            http, thumbReq, ops>>
             /\ timers' <= timers
       /\ (DrainStep /\ uploadQueue # <<>>) =>
             /\ uploadQueue' = Tail(uploadQueue)
             /\ started' = Append(started, Head(uploadQueue))
             /\ pc'[Head(uploadQueue)] \in Processing
             /\ \A t \in TaskIds : t # Head(uploadQueue) => pc'[t] = pc[t]
             /\ timers' <= timers
       /\ Len(started') <= Len(started) + 1
       /\ timers' > timers =>
             /\ timers' = timers + 1
             /\ \E t \in TaskIds : pc[t] \in {"put", "mp"} /\ pc'[t] = "done"
       /\ \A t \in TaskIds :
             (pc[t] # "done" /\ pc'[t] = "done") =>
                 /\ pc[t] \in {"put", "mp"}
                 /\ result'[t] \in {"ok", "failed"}
                 /\ timers' = timers + 1
      ]_vars

\* every pushed task was shifted and ended, one of them in failure, and every
\* scheduled pass has run, the last of them on the empty queue
C17_Witness ==
    /\ nextId = MaxTasks
    /\ uploadQueue = <<>>
    /\ timers = 0
    /\ \A t \in TaskIds : pc[t] = "done"
    /\ \E t \in TaskIds : result[t] = "failed"


\* ------------------------------------------------------------------- C18
\* C18: the main upload of a task carries fd-thumbnail = d only if the task
\* is of an eligible type, its pass rendered a thumbnail, digested it to d,
\* and the PUT of thumbnails/d.png had resolved when the main upload was
\* issued; it carries no fd-thumbnail when the type is not eligible, the
\* render failed or the thumbnail PUT failed; no main upload is issued while
\* the thumbnail PUT is pending.
C18_HeaderOnlyAfterThumbnail ==
    \A t \in TaskIds :
        /\ ~MainStarted(t) => fdThumbnail[t] = NoDigest
        /\ MainStarted(t) => thumbReq[t] \in {"none", "ok", "failed"}
        /\ fdThumbnail[t] # NoDigest =>
              /\ Eligible(files[t].type)
              /\ thumbnailBlob[t] # "null"
              /\ digestHex[t] = fdThumbnail[t]
              /\ thumbReq[t] = "ok"
        /\ (MainStarted(t) /\ thumbReq[t] = "ok") => fdThumbnail[t] = digestHex[t]
        /\ ~Eligible(files[t].type) => thumbReq[t] = "none"

\* one main upload carries the digest of its stored thumbnail, another was
\* issued without the header after its thumbnail PUT failed
C18_Witness ==
    \E t, u \in TaskIds :
        /\ MainStarted(t) /\ fdThumbnail[t] # NoDigest
        /\ MainStarted(u) /\ thumbReq[u] = "failed" /\ fdThumbnail[u] = NoDigest


\* ------------------------------------------------------------------- C19
ChainActive == timers > 0 \/ \E t \in TaskIds : pc[t] \in Processing

\* C19: a task that is in the queue while a pass is processing a task or a
\* scheduled pass is pending is eventually shifted, with no further call of
\* processUploadQueue from outside.
C19_EnqueuedTaskIsReached ==
    \A u \in TaskIds :
        (pc[u] = "queued" /\ ChainActive) ~> (pc[u] # "queued")


\* ------------------------------------------------------------------- C20
\* C20: the step in which a part request fails, and every step after it,
\* dispatches no part request of that transfer; and while a task is being
\* processed no part request of a task that ended in a part failure is in
\* flight.
C20_NoPartAfterFailure ==
    [][/\ \A s \in TaskIds :
             mp'[s].cause = "part" => mp'[s].sentParts = mp[s].sentParts
       /\ \A t, u \in TaskIds :
             (mp'[t].cause = "part" /\ pc'[t] = "done" /\ pc'[u] \in Processing) =>
                 Active(mp'[t].part) = {}
      ]_vars

====
